---- MODULE Spec2Model ----
(***************************************************************************)
(* HRRR model viewer: the playback/selection state of App.tsx, the MAG     *)
(* naming scheme (filename, direct URL, proxy URL) and the Netlify proxy   *)
(* function that relays one image request to mag.ncep.noaa.gov.            *)
(*                                                                         *)
(* Text is modelled as a sequence of one-character strings, so that        *)
(* padding, lowercasing, URL encoding and base64 are computed, not assumed.*)
(***************************************************************************)
EXTENDS Integers, Sequences, FiniteSets, TLC

VARIABLES
    \* ---- App.tsx component state (useState / useRef / useMemo) ----
    cycleHour,      \* useState<number>(utcHourNow())
    activeParam,    \* useState<string>("ceiling")
    fhr,            \* useState<number>(3)
    playing,        \* useState<boolean>(false)
    speedMs,        \* useState<number>(600)
    hours,          \* useMemo(() => listHoursForCycle(cycleHour), [cycleHour])
    timerRef,       \* useRef<number | null>(null).current; 0 stands for null
    cleanup,        \* TRUE iff the last effect run returned its cleanup function
    timers,         \* the browser's active intervals: records [id, cyc, ms]
    nextTimerId,    \* the id the next window.setInterval call returns
    mounted,        \* FALSE once the component has been unmounted
    last,           \* history: the handler of the App that ran last
    \* ---- one image request through the naming scheme and the proxy ----
    req,            \* the client's tuple [model, area, cycleHour, fhr, param]
    filename,       \* buildMagFilename(...) of req
    directUrl,      \* buildMagDirectUrl(req)
    proxyUrl,       \* buildMagProxyUrl(req)
    event,          \* the function's event.queryStringParameters
    remote,         \* the handler's `remote`
    hpc,            \* where the request / the handler stands
    upstream,       \* what the outbound fetch and the body read produce
    fetches,        \* number of outbound fetch calls of this invocation
    result          \* what the handler returned (or that it threw)

uiVars == <<cycleHour, activeParam, fhr, playing, speedMs, hours, timerRef,
            cleanup, timers, nextTimerId, mounted, last>>
relayVars == <<req, filename, directUrl, proxyUrl, event, remote, hpc,
               upstream, fetches, result>>
vars == <<cycleHour, activeParam, fhr, playing, speedMs, hours, timerRef,
          cleanup, timers, nextTimerId, mounted, last,
          req, filename, directUrl, proxyUrl, event, remote, hpc,
          upstream, fetches, result>>

-----------------------------------------------------------------------------
(* Bounds of the model *)

\* window.setInterval is called at most this many times in one run
MaxTimerId == 3
\* the parameter menu is clicked on the first MaxParams keys of the catalog
MaxParams == 3
\* the resolver is applied to cycle hours 0..MaxCycleInput
MaxCycleInput == 24
\* the resolver is applied to forecast hours 0..MaxFhrInput
MaxFhrInput == 1000
\* an upstream image has at most this many bytes
MaxBodyLen == 3

-----------------------------------------------------------------------------
(* App.tsx: constants and helpers *)

\* the keys of PARAM_GROUPS, in catalog order
PARAM_KEYS ==
    <<"ceiling", "vis", "sim_radar_comp", "precip_ptot", "snow_total",
      "2m_temp_10m_wnd", "2m_dewp_10m_wnd", "10m_wnd",
      "700_rh_ht", "850_temp_ht", "300_wnd">>

InitialFhr == 3
InitialSpeedMs == 600
ExtendedMax == 48
StandardMax == 18
CycleCount == 24

\* utcHourNow(): Date.getUTCHours() is some hour of the day
UtcHours == 0..(CycleCount - 1)

\* fault: the 06 and 18 cycles are not taken as extended
isExtendedCycleNoon(hour) == hour \in {0, 12}

isExtendedCycle(hour) == hour \in {0, 6, 12, 18}

\* Array.from({ length: max + 1 }, (_, i) => i)
listHoursForCycle(hour) ==
    LET max == IF isExtendedCycle(hour) THEN ExtendedMax ELSE StandardMax
    IN  [i \in 1..(max + 1) |-> i - 1]

\* Array.prototype.indexOf, as a 0-based index, -1 when absent
indexOf(list, x) ==
    IF \E i \in 1..Len(list) : list[i] = x
    THEN (CHOOSE i \in 1..Len(list) :
            list[i] = x /\ \A j \in 1..(i - 1) : list[j] # x) - 1
    ELSE -1

\* fault: an advance that stays on the last hour instead of wrapping
advanceStay(prev, cyc) ==
    LET list == listHoursForCycle(cyc)
        i == indexOf(list, prev)
    IN  IF i < 0 THEN list[1]
        ELSE IF i = Len(list) - 1 THEN list[i + 1] ELSE list[i + 2]

\* fault: an advance that never wraps
advanceNoWrap(prev, cyc) == prev + 1

\* the updater shared by the interval callback and the Next button:
\*   i < 0 || i === list.length - 1 ? list[0] : list[i + 1]
advance(prev, cyc) ==
    LET list == listHoursForCycle(cyc)
        i == indexOf(list, prev)
    IN  IF i < 0 \/ i = Len(list) - 1 THEN list[1] ELSE list[i + 2]

\* fault: the step back without its floor
stepBackUnclamped(f) == f - 1

\* the updater of the Prev button: Math.max(0, f - 1)
stepBack(f) == IF f - 1 > 0 THEN f - 1 ELSE 0

-----------------------------------------------------------------------------
(* App.tsx: the timer effect, useEffect(..., [playing, speedMs, cycleHour]) *)

\* fault: a cleanup that clears nothing
clearTimerNever(ts, ref) == ts

\* the cleanup function: if (timerRef.current) window.clearInterval(timerRef.current)
clearTimer(ts, ref) == IF ref # 0 THEN {t \in ts : t.id # ref} ELSE ts

\* fault: the effect returns no cleanup
runCleanupNever(ts, ref, had) == ts

\* the cleanup of the previous effect run, when that run returned one
runCleanup(ts, ref, had) == IF had THEN clearTimer(ts, ref) ELSE ts

\* fault: cycleHour left out of the dependency array
depsChangedNoCycle(p1, s1, c1, p2, s2, c2) == <<p1, s1>> # <<p2, s2>>

\* does a change of the dependency array re-run the effect
depsChanged(p1, s1, c1, p2, s2, c2) == <<p1, s1, c1>> # <<p2, s2, c2>>

\* Commit of a render with the new values p (playing), s (speedMs), c (cycleHour):
\* when a dependency changed the previous cleanup runs, then the effect body.
\* React flushes the effects of a click or change event before any timer
\* callback can run, so the commit is part of the handler's step.
CommitEffect(p, s, c) ==
    IF depsChanged(playing, speedMs, cycleHour, p, s, c)
    THEN LET cleared == runCleanup(timers, timerRef, cleanup)
         IN  IF ~p
             THEN /\ timers' = cleared
                  /\ cleanup' = FALSE
                  /\ UNCHANGED <<timerRef, nextTimerId>>
             ELSE /\ nextTimerId <= MaxTimerId
                  /\ timers' = cleared \cup
                        {[id |-> nextTimerId, cyc |-> c, ms |-> s]}
                  /\ timerRef' = nextTimerId
                  /\ nextTimerId' = nextTimerId + 1
                  /\ cleanup' = TRUE
    ELSE UNCHANGED <<timers, timerRef, nextTimerId, cleanup>>

-----------------------------------------------------------------------------
(* App.tsx: the component's event handlers *)

InitUI ==
    /\ cycleHour \in UtcHours
    /\ activeParam = "ceiling"
    /\ fhr = InitialFhr
    /\ playing = FALSE
    /\ speedMs = InitialSpeedMs
    /\ hours = listHoursForCycle(cycleHour)
    /\ timerRef = 0
    /\ cleanup = FALSE
    /\ timers = {}
    /\ nextTimerId = 1
    /\ mounted = TRUE
    /\ last = "mount"

\* Play/Pause button: setPlaying((p) => !p)
TogglePlay ==
    /\ mounted
    /\ playing' = ~playing
    /\ CommitEffect(~playing, speedMs, cycleHour)
    /\ UNCHANGED <<cycleHour, activeParam, fhr, speedMs, hours, mounted>>
    /\ last' = "toggle"
    /\ UNCHANGED relayVars

\* fault: a cycle change that also clamps fhr into the new cycle's range
SetCycleHourClamp(c) ==
    /\ mounted
    /\ c # cycleHour
    /\ cycleHour' = c
    /\ hours' = listHoursForCycle(c)
    /\ fhr' = IF fhr > Len(listHoursForCycle(c)) - 1
              THEN Len(listHoursForCycle(c)) - 1 ELSE fhr
    /\ CommitEffect(playing, speedMs, c)
    /\ UNCHANGED <<activeParam, playing, speedMs, mounted>>
    /\ last' = "cycle"
    /\ UNCHANGED relayVars

\* Run <select> onChange: setCycleHour(parseInt(e.target.value, 10))
SetCycleHour(c) ==
    /\ mounted
    /\ c # cycleHour
    /\ cycleHour' = c
    /\ hours' = listHoursForCycle(c)
    /\ CommitEffect(playing, speedMs, c)
    /\ UNCHANGED <<activeParam, fhr, playing, speedMs, mounted>>
    /\ last' = "cycle"
    /\ UNCHANGED relayVars

\* The interval callback of timer t: setFhr((prev) => advance over the list of
\* the cycleHour the callback closed over); a state update of an unmounted
\* component is dropped
Tick(t) ==
    /\ t \in timers
    /\ fhr' = IF mounted THEN advance(fhr, t.cyc) ELSE fhr
    /\ UNCHANGED <<cycleHour, activeParam, playing, speedMs, hours, timerRef,
                   cleanup, timers, nextTimerId, mounted>>
    /\ last' = "tick"
    /\ UNCHANGED relayVars

\* Next hour button
NextHour ==
    /\ mounted
    /\ fhr' = advance(fhr, cycleHour)
    /\ UNCHANGED <<cycleHour, activeParam, playing, speedMs, hours, timerRef,
                   cleanup, timers, nextTimerId, mounted>>
    /\ last' = "next"
    /\ UNCHANGED relayVars

\* Prev hour button
PrevHour ==
    /\ mounted
    /\ fhr' = stepBack(fhr)
    /\ UNCHANGED <<cycleHour, activeParam, playing, speedMs, hours, timerRef,
                   cleanup, timers, nextTimerId, mounted>>
    /\ last' = "prev"
    /\ UNCHANGED relayVars

\* A button of the hour grid, hours.map((h) => ... onClick={() => setFhr(h)})
SelectHour(h) ==
    /\ mounted
    /\ \E i \in 1..Len(hours) : hours[i] = h
    /\ fhr' = h
    /\ UNCHANGED <<cycleHour, activeParam, playing, speedMs, hours, timerRef,
                   cleanup, timers, nextTimerId, mounted>>
    /\ last' = "select"
    /\ UNCHANGED relayVars

\* A button of the parameter menu: setActiveParam(it.key)
SetActiveParam(k) ==
    /\ mounted
    /\ \E i \in 1..Len(PARAM_KEYS) : PARAM_KEYS[i] = k
    /\ activeParam' = k
    /\ UNCHANGED <<cycleHour, fhr, playing, speedMs, hours, timerRef,
                   cleanup, timers, nextTimerId, mounted>>
    /\ last' = "param"
    /\ UNCHANGED relayVars

\* Unmount: React runs the cleanup of the last effect run
Unmount ==
    /\ mounted
    /\ mounted' = FALSE
    /\ timers' = runCleanup(timers, timerRef, cleanup)
    /\ cleanup' = FALSE
    /\ UNCHANGED <<cycleHour, activeParam, fhr, playing, speedMs, hours,
                   timerRef, nextTimerId>>
    /\ last' = "unmount"
    /\ UNCHANGED relayVars

-----------------------------------------------------------------------------
(* Text helpers: what the JavaScript string methods of the source compute *)

UpperChars ==
    <<"A", "B", "C", "D", "E", "F", "G", "H", "I", "J", "K", "L", "M",
      "N", "O", "P", "Q", "R", "S", "T", "U", "V", "W", "X", "Y", "Z">>
LowerChars ==
    <<"a", "b", "c", "d", "e", "f", "g", "h", "i", "j", "k", "l", "m",
      "n", "o", "p", "q", "r", "s", "t", "u", "v", "w", "x", "y", "z">>
DigitChars == <<"0", "1", "2", "3", "4", "5", "6", "7", "8", "9">>
HexChars ==
    <<"0", "1", "2", "3", "4", "5", "6", "7", "8", "9",
      "A", "B", "C", "D", "E", "F">>

\* String.prototype.toLowerCase
toLowerCase(s) ==
    [i \in 1..Len(s) |->
        IF \E k \in 1..Len(UpperChars) : UpperChars[k] = s[i]
        THEN LowerChars[CHOOSE k \in 1..Len(UpperChars) : UpperChars[k] = s[i]]
        ELSE s[i]]

\* String(n) of a non-negative integer
RECURSIVE String(_)
String(n) ==
    IF n < 10 THEN <<DigitChars[n + 1]>>
    ELSE String(n \div 10) \o <<DigitChars[(n % 10) + 1]>>

\* fault: no padding at all
padStartNone(s, width, ch) == s

\* String.prototype.padStart(width, ch)
padStart(s, width, ch) ==
    IF Len(s) >= width THEN s
    ELSE [i \in 1..(width - Len(s)) |-> ch] \o s

-----------------------------------------------------------------------------
(* App.tsx: the naming scheme *)

AREA == <<"c", "o", "n", "u", "s">>
PROXY_BASE ==
    <<"/", ".", "n", "e", "t", "l", "i", "f", "y", "/",
      "f", "u", "n", "c", "t", "i", "o", "n", "s", "/", "m", "a", "g">>
MAG_SIZE_SUFFIX == <<>>
MAG_DATA ==
    <<"h", "t", "t", "p", "s", ":", "/", "/", "m", "a", "g", ".",
      "n", "c", "e", "p", ".", "n", "o", "a", "a", ".", "g", "o", "v",
      "/", "d", "a", "t", "a", "/">>
DOT_GIF == <<".", "g", "i", "f">>

\* `${model}_${area}_${fh}_${param}${MAG_SIZE_SUFFIX}.gif`, fh = padded fhr + "00"
buildMagFilename(model, area, f, param) ==
    LET fh == padStart(String(f), 3, "0") \o <<"0", "0">>
    IN  model \o <<"_">> \o area \o <<"_">> \o fh \o <<"_">> \o param
        \o MAG_SIZE_SUFFIX \o DOT_GIF

\* `https://mag.ncep.noaa.gov/data/${model}${cyc}/${file}`
buildMagDirectUrl(args) ==
    LET file == buildMagFilename(args.model, args.area, args.fhr, args.param)
        cyc == padStart(String(args.cycleHour), 2, "0")
    IN  MAG_DATA \o args.model \o cyc \o <<"/">> \o file

\* URLSearchParams.toString(): the application/x-www-form-urlencoded serializer.
\* Letters, digits and * - . _ stay, a space becomes +, any other byte %XX.
PercentCodes ==
    {<<"&", 2, 6>>, <<"=", 3, 13>>, <<"+", 2, 11>>, <<"/", 2, 15>>, <<"%", 2, 5>>,
     <<"?", 3, 15>>, <<"#", 2, 3>>}

urlencodeChar(c) ==
    IF c = " " THEN <<"+">>
    ELSE IF \E e \in PercentCodes : e[1] = c
    THEN LET e == CHOOSE e \in PercentCodes : e[1] = c
         IN  <<"%", HexChars[e[2] + 1], HexChars[e[3] + 1]>>
    ELSE <<c>>

RECURSIVE urlencode(_)
urlencode(s) ==
    IF s = <<>> THEN <<>> ELSE urlencodeChar(Head(s)) \o urlencode(Tail(s))

\* the `name=value` pairs joined by & in insertion order
RECURSIVE serializePairs(_)
serializePairs(pairs) ==
    IF pairs = <<>> THEN <<>>
    ELSE urlencode(pairs[1][1]) \o <<"=">> \o urlencode(pairs[1][2])
         \o (IF Len(pairs) > 1 THEN <<"&">> ELSE <<>>)
         \o serializePairs(Tail(pairs))

K_model == <<"m", "o", "d", "e", "l">>
K_area == <<"a", "r", "e", "a">>
K_cycle == <<"c", "y", "c", "l", "e">>
K_fhr == <<"f", "h", "r">>
K_param == <<"p", "a", "r", "a", "m">>
K_size == <<"s", "i", "z", "e">>

\* `${PROXY_BASE}?${qs.toString()}`
buildMagProxyUrl(args) ==
    LET qs == <<
            <<K_model, args.model>>,
            <<K_area, args.area>>,
            <<K_cycle, padStart(String(args.cycleHour), 2, "0")>>,
            <<K_fhr, padStart(String(args.fhr), 3, "0")>>,
            <<K_param, args.param>> >>
    IN  PROXY_BASE \o <<"?">> \o serializePairs(qs)

-----------------------------------------------------------------------------
(* The function platform: the request's query string becomes                *)
(* event.queryStringParameters (split on & and =, + and %XX decoded)        *)

hexValue(c) == (CHOOSE k \in 1..Len(HexChars) : HexChars[k] = c) - 1
isHex(c) == \E k \in 1..Len(HexChars) : HexChars[k] = c

RECURSIVE urldecode(_)
urldecode(s) ==
    IF s = <<>> THEN <<>>
    ELSE IF Head(s) = "+" THEN <<" ">> \o urldecode(Tail(s))
    ELSE IF /\ Head(s) = "%" /\ Len(s) >= 3 /\ isHex(s[2]) /\ isHex(s[3])
            /\ \E e \in PercentCodes : e[2] = hexValue(s[2]) /\ e[3] = hexValue(s[3])
    THEN LET e == CHOOSE e \in PercentCodes :
                    e[2] = hexValue(s[2]) /\ e[3] = hexValue(s[3])
         IN  <<e[1]>> \o urldecode(SubSeq(s, 4, Len(s)))
    ELSE <<Head(s)>> \o urldecode(Tail(s))

\* position of the first sep in s, 0 when there is none
firstIndex(s, sep) ==
    IF \E i \in 1..Len(s) : s[i] = sep
    THEN CHOOSE i \in 1..Len(s) : s[i] = sep /\ \A j \in 1..(i - 1) : s[j] # sep
    ELSE 0

RECURSIVE splitOn(_, _)
splitOn(s, sep) ==
    LET i == firstIndex(s, sep)
    IN  IF i = 0 THEN <<s>>
        ELSE <<SubSeq(s, 1, i - 1)>> \o splitOn(SubSeq(s, i + 1, Len(s)), sep)

\* one `name=value` segment as <<name, value>>, both decoded
parsePair(seg) ==
    LET i == firstIndex(seg, "=")
    IN  IF i = 0 THEN <<urldecode(seg), <<>> >>
        ELSE <<urldecode(SubSeq(seg, 1, i - 1)),
               urldecode(SubSeq(seg, i + 1, Len(seg)))>>

\* event.queryStringParameters of a request for url: a map from names to
\* values (the last value of a repeated name)
parseQuery(url) ==
    LET q == firstIndex(url, "?")
        qs == IF q = 0 THEN <<>> ELSE SubSeq(url, q + 1, Len(url))
        segs == IF qs = <<>> THEN <<>> ELSE splitOn(qs, "&")
        pairs == [i \in 1..Len(segs) |-> parsePair(segs[i])]
        names == {pairs[i][1] : i \in 1..Len(pairs)}
    IN  [k \in names |->
            pairs[CHOOSE i \in 1..Len(pairs) :
                    pairs[i][1] = k /\ \A j \in (i + 1)..Len(pairs) : pairs[j][1] # k][2]]

-----------------------------------------------------------------------------
(* The proxy function: handler(event) *)

D_hrrr == <<"h", "r", "r", "r">>
D_conus == <<"c", "o", "n", "u", "s">>
D_ceiling == <<"c", "e", "i", "l", "i", "n", "g">>

\* p.name || dflt : a missing or empty parameter takes the default
orDefault(p, name, dflt) ==
    IF name \in DOMAIN p /\ p[name] # <<>> THEN p[name] ELSE dflt

\* the six constants the handler derives from the query parameters
handlerFields(p) ==
    [model |-> toLowerCase(orDefault(p, K_model, D_hrrr)),
     area  |-> toLowerCase(orDefault(p, K_area, D_conus)),
     cycle |-> padStart(orDefault(p, K_cycle, <<>>), 2, "0"),
     fhr   |-> padStart(orDefault(p, K_fhr, <<"0">>), 3, "0"),
     param |-> toLowerCase(orDefault(p, K_param, D_ceiling)),
     size  |-> orDefault(p, K_size, <<>>)]

\* `${model}_${area}_${fhr}00_${param}${size}.gif`
handlerFilename(p) ==
    LET f == handlerFields(p)
    IN  f.model \o <<"_">> \o f.area \o <<"_">> \o f.fhr \o <<"0", "0", "_">>
        \o f.param \o f.size \o DOT_GIF

\* `https://mag.ncep.noaa.gov/data/${model}${cycle}/${filename}`
handlerRemote(p) ==
    LET f == handlerFields(p)
    IN  MAG_DATA \o f.model \o f.cycle \o <<"/">> \o handlerFilename(p)

\* Response.ok
respOk(status) == status >= 200 /\ status <= 299

B64Chars ==
    <<"A", "B", "C", "D", "E", "F", "G", "H", "I", "J", "K", "L", "M",
      "N", "O", "P", "Q", "R", "S", "T", "U", "V", "W", "X", "Y", "Z",
      "a", "b", "c", "d", "e", "f", "g", "h", "i", "j", "k", "l", "m",
      "n", "o", "p", "q", "r", "s", "t", "u", "v", "w", "x", "y", "z",
      "0", "1", "2", "3", "4", "5", "6", "7", "8", "9", "+", "/">>

\* fault: an encoder that drops the bytes after the last full group of three
RECURSIVE toBase64NoTail(_)
toBase64NoTail(bytes) ==
    IF Len(bytes) < 3 THEN <<>>
    ELSE <<B64Chars[(bytes[1] \div 4) + 1],
           B64Chars[((bytes[1] % 4) * 16 + (bytes[2] \div 16)) + 1],
           B64Chars[((bytes[2] % 16) * 4 + (bytes[3] \div 64)) + 1],
           B64Chars[(bytes[3] % 64) + 1]>>
         \o toBase64NoTail(SubSeq(bytes, 4, Len(bytes)))

\* Buffer.prototype.toString("base64"): 3 bytes -> 4 characters, = padding
RECURSIVE toBase64(_)
toBase64(bytes) ==
    IF Len(bytes) = 0 THEN <<>>
    ELSE IF Len(bytes) = 1
    THEN <<B64Chars[(bytes[1] \div 4) + 1],
           B64Chars[((bytes[1] % 4) * 16) + 1], "=", "=">>
    ELSE IF Len(bytes) = 2
    THEN <<B64Chars[(bytes[1] \div 4) + 1],
           B64Chars[((bytes[1] % 4) * 16 + (bytes[2] \div 16)) + 1],
           B64Chars[((bytes[2] % 16) * 4) + 1], "=">>
    ELSE <<B64Chars[(bytes[1] \div 4) + 1],
           B64Chars[((bytes[1] % 4) * 16 + (bytes[2] \div 16)) + 1],
           B64Chars[((bytes[2] % 16) * 4 + (bytes[3] \div 64)) + 1],
           B64Chars[(bytes[3] % 64) + 1]>>
         \o toBase64(SubSeq(bytes, 4, Len(bytes)))

\* String(err) of an Error object: Error.prototype.toString
errString(err) ==
    IF err.message = <<>> THEN err.name
    ELSE IF err.name = <<>> THEN err.message
    ELSE err.name \o <<":", " ">> \o err.message

\* fault: every upstream error reported as 502
passthroughAs502(status, text) == [statusCode |-> 502, body |-> text]

\* if (!resp.ok) { ... return { statusCode: resp.status, body: text } }
passthroughResponse(status, text) == [statusCode |-> status, body |-> text]

\* the success return value
successResponse(bytes) ==
    [statusCode |-> 200,
     headers |-> [h \in {"Content-Type", "Cache-Control", "Access-Control-Allow-Origin"} |->
                    CASE h = "Content-Type" -> "image/gif"
                      [] h = "Cache-Control" -> "public, max-age=300"
                      [] h = "Access-Control-Allow-Origin" -> "*"],
     body |-> toBase64(bytes),
     isBase64Encoded |-> TRUE]

\* fault: the body is err.message, not String(err)
catchMessageOnly(err) == [statusCode |-> 500, body |-> err.message]

\* catch (err) { return { statusCode: 500, body: String(err) } }
catchResponse(err) == [statusCode |-> 500, body |-> errString(err)]

-----------------------------------------------------------------------------
(* Inputs *)

S_HRRR == <<"H", "R", "R", "R">>
S_nam == <<"n", "a", "m">>
S_CONUS == <<"C", "O", "N", "U", "S">>
S_Vis == <<"V", "i", "s">>
S_a_b == <<"a", " ", "b">>
S_t_q == <<"t", "&", "q", "=", "1">>
S_2m == <<"2", "m", "_", "t", "e", "m", "p", "_", "1", "0", "m", "_", "w", "n", "d">>
S_L == <<"_", "L">>
S_GFS == <<"G", "F", "S">>

\* the App's own calls: { cycleHour, fhr, param }, model and area defaulted
AppTuples ==
    {[kind |-> "client", model |-> D_hrrr, area |-> AREA,
      cycleHour |-> c, fhr |-> f, param |-> D_ceiling] :
        c \in 0..MaxCycleInput, f \in 0..MaxFhrInput}

\* other argument strings, at some cycle and forecast hours
VariantTuples ==
    {[kind |-> "client", model |-> m, area |-> a,
      cycleHour |-> c, fhr |-> f, param |-> q] :
        m \in {D_hrrr, S_HRRR, S_nam}, a \in {AREA, S_CONUS},
        c \in {0, 7, 12, 23}, f \in {0, 3, 48, 100, 999},
        q \in {D_ceiling, S_2m, S_Vis, S_a_b, S_t_q}}

\* a request that reaches the function without the App
DirectHit ==
    [kind |-> "direct", model |-> <<>>, area |-> <<>>,
     cycleHour |-> 0, fhr |-> 0, param |-> <<>>]

RawEvents ==
    { [k \in {} |-> <<>>],
      (K_cycle :> <<"7">>) @@ (K_fhr :> <<"5">>),
      (K_cycle :> <<"2", "3">>) @@ (K_fhr :> <<"4", "8">>) @@ (K_param :> S_2m),
      (K_model :> S_GFS) @@ (K_area :> S_CONUS) @@ (K_cycle :> <<"1", "2">>)
         @@ (K_fhr :> <<"0", "0", "3">>) @@ (K_param :> S_Vis) @@ (K_size :> S_L),
      (K_model :> <<>>) @@ (K_param :> <<>>) @@ (K_cycle :> <<"1", "2", "3">>)
         @@ (K_fhr :> <<"1", "0", "0", "0">>),
      (K_cycle :> <<"x">>) @@ (K_fhr :> <<"-", "1">>) @@ (K_size :> <<"_", "s">>) }

E_fetch ==
    [name |-> <<"T", "y", "p", "e", "E", "r", "r", "o", "r">>,
     message |-> <<"f", "e", "t", "c", "h", " ", "f", "a", "i", "l", "e", "d">>]
E_plain == [name |-> <<"E", "r", "r", "o", "r">>, message |-> <<>>]
NoErr == [name |-> <<>>, message |-> <<>>]
Errors == {E_fetch, E_plain}

UpstreamStatuses == {200, 204, 403, 404, 503}
ByteSamples == {0, 71, 255}
ByteBodies == UNION {[1..k -> ByteSamples] : k \in 0..MaxBodyLen}
TextBodies ==
    { <<>>, <<"n", "o", "t", " ", "f", "o", "u", "n", "d">>,
      <<"<", "h", "1", ">", "4", "0", "3", "<", "/", "h", "1", ">">> }

NoResult == [statusCode |-> 0, body |-> <<>>, none |-> TRUE]
NoUpstream ==
    [fetch |-> "none", status |-> 0, err |-> NoErr, read |-> "none", data |-> <<>>]

-----------------------------------------------------------------------------
(* One image request: the client builds its URLs, the platform invokes the  *)
(* function, the handler runs to its return                                 *)

InitRequest(tuples) ==
    /\ req \in tuples
    /\ filename = <<>>
    /\ directUrl = <<>>
    /\ proxyUrl = <<>>
    /\ event = [k \in {} |-> <<>>]
    /\ remote = <<>>
    /\ hpc = "start"
    /\ upstream = NoUpstream
    /\ fetches = 0
    /\ result = NoResult

\* the App's useMemo calls: imageUrlDirect and imageUrl
ClientBuild ==
    /\ hpc = "start"
    /\ req.kind = "client"
    /\ filename' = buildMagFilename(req.model, req.area, req.fhr, req.param)
    /\ directUrl' = buildMagDirectUrl(req)
    /\ proxyUrl' = buildMagProxyUrl(req)
    /\ hpc' = "built"
    /\ UNCHANGED <<req, event, remote, upstream, fetches, result>>
    /\ UNCHANGED uiVars

\* the browser requests imageUrl; the platform calls handler(event)
Invoke ==
    /\ hpc = "built"
    /\ event' = parseQuery(proxyUrl)
    /\ hpc' = "invoked"
    /\ UNCHANGED <<req, filename, directUrl, proxyUrl, remote, upstream, fetches, result>>
    /\ UNCHANGED uiVars

\* some other caller requests the function with query parameters of its own
RawInvoke(e) ==
    /\ hpc = "start"
    /\ req.kind = "direct"
    /\ event' = e
    /\ hpc' = "invoked"
    /\ UNCHANGED <<req, filename, directUrl, proxyUrl, remote, upstream, fetches, result>>
    /\ UNCHANGED uiVars

\* handler, up to `await fetch(remote, ...)`
HandlerStart ==
    /\ hpc = "invoked"
    /\ remote' = handlerRemote(event)
    /\ fetches' = fetches + 1
    /\ hpc' = "fetching"
    /\ UNCHANGED <<req, filename, directUrl, proxyUrl, event, upstream, result>>
    /\ UNCHANGED uiVars

\* fault: a rejected fetch is tried again
FetchThrowsRetry(err) ==
    /\ hpc = "fetching"
    /\ fetches < 3
    /\ upstream' = [upstream EXCEPT !.fetch = "throw", !.err = err]
    /\ fetches' = fetches + 1
    /\ UNCHANGED <<req, filename, directUrl, proxyUrl, event, remote, hpc, result>>
    /\ UNCHANGED uiVars

\* the fetch promise rejects: control goes to the catch block
FetchThrows(err) ==
    /\ hpc = "fetching"
    /\ upstream' = [upstream EXCEPT !.fetch = "throw", !.err = err]
    /\ result' = catchResponse(err)
    /\ hpc' = "done"
    /\ UNCHANGED <<req, filename, directUrl, proxyUrl, event, remote, fetches>>
    /\ UNCHANGED uiVars

\* the fetch promise resolves with a Response; the handler starts to read the
\* body: resp.text() when !resp.ok, resp.arrayBuffer() otherwise
FetchResolves(status) ==
    /\ hpc = "fetching"
    /\ upstream' = [upstream EXCEPT !.fetch = "resp", !.status = status]
    /\ hpc' = IF respOk(status) THEN "readBytes" ELSE "readText"
    /\ UNCHANGED <<req, filename, directUrl, proxyUrl, event, remote, fetches, result>>
    /\ UNCHANGED uiVars

\* await resp.text() resolves
ReadText(text) ==
    /\ hpc = "readText"
    /\ upstream' = [upstream EXCEPT !.read = "text", !.data = text]
    /\ result' = passthroughResponse(upstream.status, text)
    /\ hpc' = "done"
    /\ UNCHANGED <<req, filename, directUrl, proxyUrl, event, remote, fetches>>
    /\ UNCHANGED uiVars

\* await resp.arrayBuffer() resolves
ReadBytes(bytes) ==
    /\ hpc = "readBytes"
    /\ upstream' = [upstream EXCEPT !.read = "bytes", !.data = bytes]
    /\ result' = successResponse(bytes)
    /\ hpc' = "done"
    /\ UNCHANGED <<req, filename, directUrl, proxyUrl, event, remote, fetches>>
    /\ UNCHANGED uiVars

\* reading the body rejects, on either branch
ReadThrows(err) ==
    /\ hpc \in {"readText", "readBytes"}
    /\ upstream' = [upstream EXCEPT !.read = "throw", !.err = err]
    /\ result' = catchResponse(err)
    /\ hpc' = "done"
    /\ UNCHANGED <<req, filename, directUrl, proxyUrl, event, remote, fetches>>
    /\ UNCHANGED uiVars

-----------------------------------------------------------------------------
(* Specifications *)

\* the App, no image request in flight
Init ==
    /\ InitUI
    /\ InitRequest({DirectHit})

Next ==
    \/ TogglePlay
    \/ \E c \in UtcHours : SetCycleHour(c)
    \/ \E t \in timers : Tick(t)
    \/ NextHour
    \/ PrevHour
    \/ \E h \in 0..ExtendedMax : SelectHour(h)
    \/ \E i \in 1..MaxParams : SetActiveParam(PARAM_KEYS[i])
    \/ Unmount

Spec == Init /\ [][Next]_vars

\* an active interval fires
TickStep == \E t \in timers : Tick(t)

\* the App with its timer: the browser keeps firing an interval that stays active.
\* The run selects among two extended and two standard cycles and among six
\* hours of the grid; ticks, Next and Previous still reach every hour.
LiveCycles == {0, 3, 12, 17}
LiveHours == {0, 5, 18, 19, 30, 48}

InitLive ==
    /\ InitUI
    /\ cycleHour \in LiveCycles
    /\ InitRequest({DirectHit})

NextLive ==
    \/ TogglePlay
    \/ \E c \in LiveCycles : SetCycleHour(c)
    \/ TickStep
    \/ NextHour
    \/ PrevHour
    \/ \E h \in LiveHours : SelectHour(h)
    \/ \E i \in 1..MaxParams : SetActiveParam(PARAM_KEYS[i])
    \/ Unmount

SpecLive == InitLive /\ [][NextLive]_vars /\ WF_vars(TickStep)

\* the naming scheme: the resolver and the handler's derivation of `remote`
InitUrl ==
    /\ InitUI
    /\ cycleHour = 0
    /\ InitRequest(AppTuples \cup VariantTuples \cup {DirectHit})

NextUrl ==
    \/ ClientBuild
    \/ Invoke
    \/ \E e \in RawEvents : RawInvoke(e)
    \/ HandlerStart

SpecUrl == InitUrl /\ [][NextUrl]_vars

\* the proxy function, from the request to its return
RelayTuples ==
    {t \in VariantTuples : t.cycleHour = 12 /\ t.fhr = 3 /\ t.area = AREA}

InitRelay ==
    /\ InitUI
    /\ cycleHour = 0
    /\ InitRequest(RelayTuples \cup {DirectHit})

NextRelay ==
    \/ ClientBuild
    \/ Invoke
    \/ \E e \in RawEvents : RawInvoke(e)
    \/ HandlerStart
    \/ \E err \in Errors : FetchThrows(err)
    \/ \E s \in UpstreamStatuses : FetchResolves(s)
    \/ \E text \in TextBodies : ReadText(text)
    \/ \E bytes \in ByteBodies : ReadBytes(bytes)
    \/ \E err \in Errors : ReadThrows(err)

SpecRelay == InitRelay /\ [][NextRelay]_vars

-----------------------------------------------------------------------------
(* Properties *)

\* the URL shape of the image host, from its parts
RemoteShape(model, area, cc, fff, param, size) ==
    MAG_DATA \o model \o cc \o <<"/">> \o model \o <<"_">> \o area \o <<"_">>
    \o fff \o <<"0", "0", "_">> \o param \o size \o DOT_GIF

\* a number below 100 in exactly two decimal digits
TwoDigits(n) == <<DigitChars[(n \div 10) + 1], DigitChars[(n % 10) + 1]>>

\* a number below 1000 in exactly three decimal digits
ThreeDigits(n) ==
    <<DigitChars[(n \div 100) + 1], DigitChars[((n \div 10) % 10) + 1],
      DigitChars[(n % 10) + 1]>>

\* the request is one of the claim's tuples: cycle hour 0..23, forecast hour 0..999
InClaimRange == req.kind = "client" /\ req.cycleHour <= 23 /\ req.fhr <= 999

\* C1: for every tuple with cycle hour in 0..23 and forecast hour in 0..999 the
\* URL of buildMagDirectUrl equals the remote URL the handler derives from the
\* query parameters of buildMagProxyUrl for the same tuple.
C1_RoundTrip ==
    (hpc = "fetching" /\ InClaimRange) => remote = directUrl

\* The part of C1 the code keeps: the two URLs agree when model, area and
\* parameter hold no uppercase letter.
C1_RoundTripLowercase ==
    (/\ hpc = "fetching" /\ InClaimRange
     /\ toLowerCase(req.model) = req.model
     /\ toLowerCase(req.area) = req.area
     /\ toLowerCase(req.param) = req.param)
    => remote = directUrl

\* the wrap rule of an advance, over the range of cycle c
WrapRule(f, c) ==
    LET top == IF c \in {0, 6, 12, 18} THEN 48 ELSE 18
    IN  IF f = top \/ f < 0 \/ f > top THEN 0 ELSE f + 1

\* C2: an advance by a timer tick or by the Next button sets fhr to 0 when fhr is
\* the last valid hour of the current cycle or not a valid hour of it, and to
\* fhr + 1 otherwise; both apply the same rule.
C2_AdvanceRule ==
    [][last' \in {"tick", "next"} => fhr' = WrapRule(fhr, cycleHour)]_vars

\* a tick has wrapped under a standard cycle (from 18, or from beyond the range)
C2_Witness ==
    /\ last = "tick"
    /\ fhr = 0
    /\ cycleHour = 3
    /\ playing

\* C3: at most one repeating timer is active at any time.
C3_OneTimer == Cardinality(timers) <= 1

\* play has been started a second time and one timer is active
C3_Witness ==
    /\ last = "toggle"
    /\ playing
    /\ nextTimerId = 3
    /\ Cardinality(timers) = 1

\* C4: the valid-hours list of the current cycle is 0..48 in ascending order for
\* the cycles 0, 6, 12, 18, and 0..18 for every other cycle.
C4_HoursList ==
    LET n == IF cycleHour \in {0, 6, 12, 18} THEN 49 ELSE 19
    IN  /\ cycleHour \in 0..23
        /\ Len(hours) = n
        /\ \A i \in 1..n : hours[i] = i - 1

\* the cycle was changed to an extended one and its list has 49 elements
C4_Witness ==
    /\ last = "cycle"
    /\ cycleHour = 18
    /\ Len(hours) = 49

\* C5: Previous sets fhr to max(0, fhr - 1), so from 0 it stays at 0, and fhr is
\* never negative.
C5_StepBack ==
    /\ [](fhr >= 0)
    /\ [][last' = "prev" => fhr' = (IF fhr = 0 THEN 0 ELSE fhr - 1)]_vars

\* Previous was pressed at (or down to) hour 0
C5_Witness ==
    /\ last = "prev"
    /\ fhr = 0

\* C6: a non-success upstream status is returned with the upstream body text
\* unchanged, with no headers added and after a single fetch.
C6_Passthrough ==
    (/\ hpc = "done"
     /\ upstream.fetch = "resp"
     /\ (upstream.status < 200 \/ upstream.status > 299)
     /\ upstream.read = "text")
    => /\ result.statusCode = upstream.status
       /\ result.body = upstream.data
       /\ DOMAIN result = {"statusCode", "body"}
       /\ fetches = 1

\* a 404 with the body "not found" was relayed
C6_Witness ==
    /\ hpc = "done"
    /\ upstream.status = 404
    /\ upstream.read = "text"
    /\ result.body = <<"n", "o", "t", " ", "f", "o", "u", "n", "d">>

b64Value(c) == (CHOOSE k \in 1..Len(B64Chars) : B64Chars[k] = c) - 1

\* the bytes a base64 text stands for; <<-1>> when the text is not base64
RECURSIVE fromBase64(_)
fromBase64(s) ==
    IF s = <<>> THEN <<>>
    ELSE IF Len(s) < 4 THEN <<-1>>
    ELSE IF s[3] = "=" /\ s[4] = "="
    THEN IF Len(s) = 4
         THEN <<b64Value(s[1]) * 4 + (b64Value(s[2]) \div 16)>>
         ELSE <<-1>>
    ELSE IF s[4] = "="
    THEN IF Len(s) = 4
         THEN <<b64Value(s[1]) * 4 + (b64Value(s[2]) \div 16),
                (b64Value(s[2]) % 16) * 16 + (b64Value(s[3]) \div 4)>>
         ELSE <<-1>>
    ELSE <<b64Value(s[1]) * 4 + (b64Value(s[2]) \div 16),
           (b64Value(s[2]) % 16) * 16 + (b64Value(s[3]) \div 4),
           (b64Value(s[3]) % 4) * 64 + b64Value(s[4])>>
         \o fromBase64(SubSeq(s, 5, Len(s)))

\* C7: a success upstream status is answered with status 200, the three headers,
\* isBase64Encoded = true and a body that decodes to the upstream bytes.
C7_Success ==
    (/\ hpc = "done"
     /\ upstream.fetch = "resp"
     /\ upstream.status >= 200 /\ upstream.status <= 299
     /\ upstream.read = "bytes")
    => /\ result.statusCode = 200
       /\ DOMAIN result = {"statusCode", "headers", "body", "isBase64Encoded"}
       /\ DOMAIN result.headers =
            {"Content-Type", "Cache-Control", "Access-Control-Allow-Origin"}
       /\ result.headers["Content-Type"] = "image/gif"
       /\ result.headers["Cache-Control"] = "public, max-age=300"
       /\ result.headers["Access-Control-Allow-Origin"] = "*"
       /\ result.isBase64Encoded = TRUE
       /\ fromBase64(result.body) = upstream.data
       /\ Len(fromBase64(result.body)) = Len(upstream.data)

\* an upstream image of two bytes (one padding character) was relayed
C7_Witness ==
    /\ hpc = "done"
    /\ upstream.status = 200
    /\ upstream.read = "bytes"
    /\ upstream.data = <<71, 255>>
    /\ result.statusCode = 200

\* the text String(err) gives for the failures of the model
FailureText(err) ==
    IF err = E_fetch
    THEN <<"T", "y", "p", "e", "E", "r", "r", "o", "r", ":", " ",
           "f", "e", "t", "c", "h", " ", "f", "a", "i", "l", "e", "d">>
    ELSE <<"E", "r", "r", "o", "r">>

\* C8: a failure of the fetch or of the body read, on either branch, is answered
\* with status 500 and the failure's string form; the handler always returns.
C8_InternalError ==
    /\ hpc = "done" => ("statusCode" \in DOMAIN result /\ "none" \notin DOMAIN result)
    /\ (hpc = "done" /\ (upstream.fetch = "throw" \/ upstream.read = "throw"))
       => /\ result.statusCode = 500
          /\ result.body = FailureText(upstream.err)
          /\ DOMAIN result = {"statusCode", "body"}

\* reading the body of a success response failed
C8_Witness ==
    /\ hpc = "done"
    /\ upstream.fetch = "resp"
    /\ upstream.status = 200
    /\ upstream.read = "throw"
    /\ result.statusCode = 500

\* C9: for cycle hours 0..23 and forecast hours 0..999 the client's direct URL
\* and the handler's remote URL have the host's shape, the cycle in two digits
\* and the forecast hour in three digits followed by 00.
C9_UrlShape ==
    /\ (hpc # "start" /\ InClaimRange) =>
          directUrl = RemoteShape(req.model, req.area, TwoDigits(req.cycleHour),
                                  ThreeDigits(req.fhr), req.param, MAG_SIZE_SUFFIX)
    /\ (hpc = "fetching" /\ InClaimRange) =>
          remote = RemoteShape(toLowerCase(req.model), toLowerCase(req.area),
                               TwoDigits(req.cycleHour), ThreeDigits(req.fhr),
                               toLowerCase(req.param), <<>>)
    /\ (hpc = "fetching" /\ req.kind = "direct") =>
          \A c \in 0..23, f \in 0..999 :
            (/\ K_cycle \in DOMAIN event /\ event[K_cycle] \in {String(c), TwoDigits(c)}
             /\ K_fhr \in DOMAIN event /\ event[K_fhr] \in {String(f), ThreeDigits(f)})
            => remote = RemoteShape(handlerFields(event).model, handlerFields(event).area,
                                    TwoDigits(c), ThreeDigits(f),
                                    handlerFields(event).param, handlerFields(event).size)

\* the handler derived the URL of cycle 7, forecast hour 999, from the client's query
C9_Witness ==
    /\ hpc = "fetching"
    /\ req.kind = "client"
    /\ req.cycleHour = 7
    /\ req.fhr = 999
    /\ remote = directUrl

\* C10: buildMagFilename lowercases model, area and parameter (and the size
\* suffix), so its result is the filename of the lowercased tuple.
C10_FilenameLowercased ==
    (hpc # "start" /\ req.kind = "client") =>
        filename = buildMagFilename(toLowerCase(req.model), toLowerCase(req.area),
                                    req.fhr, toLowerCase(req.param))

\* the forecast hour lies beyond the range of cycle c
BeyondRange(f, c) == f > (IF c \in {0, 6, 12, 18} THEN 48 ELSE 18)

\* C11: once playback is stopped (pause or unmount) no timer is left, and while
\* playing is false fhr changes only through Next, Previous or an hour selection.
C11_StoppedNoTick ==
    /\ []((~playing \/ ~mounted) => timers = {})
    /\ [][(~playing /\ fhr' # fhr) => last' \in {"next", "prev", "select"}]_vars

\* play was started and then paused: the timer it created is gone
C11_Witness ==
    /\ last = "toggle"
    /\ ~playing
    /\ timerRef = 1
    /\ timers = {}

\* C12 as stated: a cycle change while playing ends playback and leaves no timer.
C12_CycleChangeStops ==
    [][(last' = "cycle" /\ playing) => (~playing' /\ timers' = {})]_vars

\* C12 as the code has it: a cycle change while playing keeps playing true,
\* cancels the running timer and starts one new timer for the new cycle.
C12_CycleChangeRestarts ==
    [][(last' = "cycle" /\ playing) =>
          /\ playing'
          /\ timers \cap timers' = {}
          /\ Cardinality(timers') = 1
          /\ \A t \in timers' : t.cyc = cycleHour' /\ t.id = timerRef']_vars

\* the cycle was changed during playback: the second timer runs, for cycle 3
C12_Witness ==
    /\ last = "cycle"
    /\ playing
    /\ cycleHour = 3
    /\ timers = {[id |-> 2, cyc |-> 3, ms |-> 600]}

\* C13: a change of playing, speedMs or cycleHour clears the existing timer and
\* sets a new one exactly when playing is then true; so while the component is
\* mounted a timer is active iff playing is true.
C13_TimerIffPlaying ==
    /\ [](mounted => (timers # {} <=> playing))
    /\ [][(mounted' /\ <<playing, speedMs, cycleHour>> # <<playing', speedMs', cycleHour'>>)
            => /\ timers \cap timers' = {}
               /\ (timers' # {} <=> playing')]_vars

\* play was started: the first timer runs with the state's cycle and speed
C13_Witness ==
    /\ last = "toggle"
    /\ playing
    /\ timers = {[id |-> 1, cyc |-> cycleHour, ms |-> speedMs]}

\* C14: every active timer's callback holds the current cycle hour, so a tick
\* advances over the current cycle's list, and it leaves playing true.
C14_TickUsesCurrentCycle ==
    /\ [](\A t \in timers : t.cyc = cycleHour)
    /\ [][last' = "tick" =>
            /\ playing /\ playing'
            /\ fhr' = WrapRule(fhr, cycleHour)
            /\ cycleHour' = cycleHour]_vars

\* a tick of the second timer moved past hour 18 under an extended cycle
C14_Witness ==
    /\ last = "tick"
    /\ playing
    /\ timerRef = 2
    /\ cycleHour = 6
    /\ fhr = 19

\* C15 as stated: a cycle change leaves fhr, the parameter and playing alone, and
\* under an unchanged cycle an fhr beyond the range comes back into range only
\* by an advance, which wraps it to 0.
C15_OnlyAdvanceRestores ==
    [][/\ last' = "cycle" =>
            (fhr' = fhr /\ activeParam' = activeParam /\ playing' = playing)
       /\ (/\ BeyondRange(fhr, cycleHour) /\ cycleHour' = cycleHour
           /\ ~BeyondRange(fhr', cycleHour)) =>
            (last' \in {"tick", "next"} /\ fhr' = 0)]_vars

\* C15 as the code has it: the cycle change leaves fhr, the parameter and playing
\* alone; from beyond the range an advance wraps to 0, and under an unchanged
\* cycle fhr comes back into range only by an advance, Previous or an hour
\* selection.
C15_CycleChangeFrame ==
    [][/\ last' = "cycle" =>
            (fhr' = fhr /\ activeParam' = activeParam /\ playing' = playing)
       /\ (BeyondRange(fhr, cycleHour) /\ last' \in {"tick", "next"}) => fhr' = 0
       /\ (/\ BeyondRange(fhr, cycleHour) /\ cycleHour' = cycleHour
           /\ ~BeyondRange(fhr', cycleHour)) =>
            last' \in {"tick", "next", "prev", "select"}]_vars

\* hour 30 is shown under cycle 3 right after the cycle change
C15_Witness ==
    /\ last = "cycle"
    /\ cycleHour = 3
    /\ fhr = 30

\* C16: an invocation issues exactly one outbound fetch, from the moment the
\* handler awaits it, and has returned exactly one response when it is done.
C16_OneFetchOneResponse ==
    /\ fetches = (IF hpc \in {"start", "built", "invoked"} THEN 0 ELSE 1)
    /\ (hpc = "done") <=> ("none" \notin DOMAIN result)
    /\ hpc = "done" =>
          \/ result = catchResponse(upstream.err)
               /\ (upstream.fetch = "throw" \/ upstream.read = "throw")
          \/ result = passthroughResponse(upstream.status, upstream.data)
               /\ upstream.read = "text"
          \/ result = successResponse(upstream.data) /\ upstream.read = "bytes"

\* the fetch failed and the invocation ended with its single fetch
C16_Witness ==
    /\ hpc = "done"
    /\ upstream.fetch = "throw"
    /\ fetches = 1
    /\ result.statusCode = 500

\* the value of query parameter name, dflt when it is missing or empty
QueryValue(name, dflt) ==
    IF name \in DOMAIN event /\ event[name] # <<>> THEN event[name] ELSE dflt

\* C17: model, area, param and size are lowercased, cycle and fhr only
\* left-padded with zeros to width 2 and 3, before they enter the remote URL.
C17_AllButCycleFhrLowercased ==
    hpc = "fetching" =>
        remote = RemoteShape(toLowerCase(QueryValue(K_model, D_hrrr)),
                             toLowerCase(QueryValue(K_area, D_conus)),
                             padStart(QueryValue(K_cycle, <<>>), 2, "0"),
                             padStart(QueryValue(K_fhr, <<"0">>), 3, "0"),
                             toLowerCase(QueryValue(K_param, D_ceiling)),
                             toLowerCase(QueryValue(K_size, <<>>)))

\* C18: fhr is always an integer in 0..48, and right after an advance (tick or
\* Next) it is a valid hour of the current cycle.
C18_FhrInRange ==
    /\ fhr \in 0..48
    /\ last \in {"tick", "next"} =>
          /\ ~BeyondRange(fhr, cycleHour)
          /\ \E i \in 1..Len(hours) : hours[i] = fhr

\* Next has reached the last hour of an extended cycle
C18_Witness ==
    /\ last = "next"
    /\ cycleHour = 18
    /\ fhr = 48

\* playback runs on (playing, mounted) and the cycle is no longer changed
PlayingOn == playing /\ mounted /\ last # "cycle"

\* ... and the user no longer steps back or selects an hour
PlayingUndisturbed == PlayingOn /\ last \notin {"prev", "select"}

\* C19 as stated: while playing stays true and the cycle is not changed, every
\* hour of the current cycle's list is shown infinitely often (0 among them).
C19_CyclesThroughRange ==
    /\ \A h \in 0..18 : <>[]PlayingOn => []<>(fhr = h)
    /\ \A h \in 19..48 :
          <>[](PlayingOn /\ cycleHour \in {0, 6, 12, 18}) => []<>(fhr = h)

\* C19 as the code has it: the same, while the user also presses neither
\* Previous nor an hour of the grid.
C19_CyclesThroughRangeUndisturbed ==
    /\ \A h \in 0..18 : <>[]PlayingUndisturbed => []<>(fhr = h)
    /\ \A h \in 19..48 :
          <>[](PlayingUndisturbed /\ cycleHour \in {0, 6, 12, 18}) => []<>(fhr = h)

\* playback has wrapped from the last hour of an extended cycle to 0
C19_Witness ==
    /\ last = "tick"
    /\ playing
    /\ cycleHour = 12
    /\ fhr = 0
    /\ timerRef = 1

====
